---- MODULE Spec2Model ----
(***************************************************************************)
(* Model of src/src/awb.rs: the AutoWhiteBalance trait implemented for     *)
(* Context (ten pass-through operations over the native rkaiq library) and *)
(* the translations between the native mode enumerations and WbOpMode.     *)
(*                                                                         *)
(* The native library is modelled as a double: every native call returns a *)
(* status chosen nondeterministically, a getter's out-parameter receives a *)
(* value the double writes, and the manual white-balance scene is echoed   *)
(* (the double stores the scene of the last successful set).               *)
(***************************************************************************)
EXTENDS Integers, Sequences, FiniteSets

VARIABLES
    feature,       \* the cargo feature the crate is compiled with
    nativeScene,   \* hidden state of the native session: the manual scene
    calls,         \* per native entry point: how often it has been invoked
    issued,        \* per trait operation: how often the caller has called it
    last,          \* the last trait call: arguments, native traffic, result
    lastSetScene,  \* the scene of the caller's last successful set_mwb_scene
    sceneBefore,   \* what get_mwb_scene returned before that set, if called
    conv,          \* the last pair of enum translations and their round trip
    pair           \* both set_wb_mode implementations run side by side

vars == <<feature, nativeScene, calls, issued, last, lastSetScene, sceneBefore, conv, pair>>

(***************************************************************************)
(* Bounds of the model.                                                    *)
(***************************************************************************)
MaxCalls == 3

(***************************************************************************)
(* Compile-time configuration.                                             *)
(***************************************************************************)
Features == {"v1_0", "v2_0", "v3_0", "v4_0", "v5_0"}

LegacyFeatures == {"v1_0", "v2_0", "v3_0"}

Uapi2Features == {"v4_0", "v5_0"}

(***************************************************************************)
(* The enumerations.                                                       *)
(***************************************************************************)
WbOpMode(f) == (IF f = "v1_0" THEN {"Invalid"} ELSE {}) \cup {"Manual", "Auto", "Max"}

opMode_t == {"OP_AUTO", "OP_MANUAL", "OP_SEMI_AUTO", "OP_INVAL"}

rk_aiq_wb_op_mode_t(f) ==
    (IF f = "v1_0" THEN {"RK_AIQ_WB_MODE_INVALID"} ELSE {})
        \cup {"RK_AIQ_WB_MODE_MANUAL", "RK_AIQ_WB_MODE_AUTO", "RK_AIQ_WB_MODE_MAX"}

(***************************************************************************)
(* impl From<ffi::opMode_t> for WbOpMode                                   *)
(***************************************************************************)
WbOpMode_from_opMode_t_semi_is_auto(f, val) ==
    CASE val = "OP_AUTO" -> "Auto"
      [] val = "OP_SEMI_AUTO" -> "Auto"
      [] val = "OP_MANUAL" -> "Manual"
      [] OTHER -> IF f = "v1_0" THEN "Invalid" ELSE "Max"

WbOpMode_from_opMode_t_unversioned(f, val) ==
    CASE val = "OP_AUTO" -> "Auto"
      [] val = "OP_SEMI_AUTO" -> "Max"
      [] val = "OP_MANUAL" -> "Manual"
      [] OTHER -> "Max"

WbOpMode_from_opMode_t(f, val) ==
    CASE val = "OP_AUTO" -> "Auto"
      [] val = "OP_SEMI_AUTO" /\ f = "v1_0" -> "Invalid"
      [] val = "OP_SEMI_AUTO" /\ f # "v1_0" -> "Max"
      [] val = "OP_MANUAL" -> "Manual"
      [] OTHER -> IF f = "v1_0" THEN "Invalid" ELSE "Max"

(***************************************************************************)
(* impl From<ffi::rk_aiq_wb_op_mode_t> for WbOpMode                        *)
(***************************************************************************)
WbOpMode_from_rk_aiq_wb_op_mode_t_swapped(f, val) ==
    CASE val = "RK_AIQ_WB_MODE_INVALID" -> "Invalid"
      [] val = "RK_AIQ_WB_MODE_MANUAL" -> "Auto"
      [] val = "RK_AIQ_WB_MODE_AUTO" -> "Manual"
      [] val = "RK_AIQ_WB_MODE_MAX" -> "Max"

WbOpMode_from_rk_aiq_wb_op_mode_t(f, val) ==
    CASE val = "RK_AIQ_WB_MODE_INVALID" -> "Invalid"
      [] val = "RK_AIQ_WB_MODE_MANUAL" -> "Manual"
      [] val = "RK_AIQ_WB_MODE_AUTO" -> "Auto"
      [] val = "RK_AIQ_WB_MODE_MAX" -> "Max"

(***************************************************************************)
(* impl From<WbOpMode> for ffi::opMode_t                                   *)
(***************************************************************************)
opMode_t_from_WbOpMode_manual_is_auto(f, val) ==
    CASE val = "Invalid" -> "OP_INVAL"
      [] val = "Manual" -> "OP_AUTO"
      [] val = "Auto" -> "OP_AUTO"
      [] val = "Max" -> "OP_INVAL"

opMode_t_from_WbOpMode(f, val) ==
    CASE val = "Invalid" -> "OP_INVAL"
      [] val = "Manual" -> "OP_MANUAL"
      [] val = "Auto" -> "OP_AUTO"
      [] val = "Max" -> "OP_INVAL"

(***************************************************************************)
(* impl From<WbOpMode> for ffi::rk_aiq_wb_op_mode_t                        *)
(***************************************************************************)
rk_aiq_wb_op_mode_t_from_WbOpMode(f, val) ==
    CASE val = "Invalid" -> "RK_AIQ_WB_MODE_INVALID"
      [] val = "Manual" -> "RK_AIQ_WB_MODE_MANUAL"
      [] val = "Auto" -> "RK_AIQ_WB_MODE_AUTO"
      [] val = "Max" -> "RK_AIQ_WB_MODE_MAX"

(***************************************************************************)
(* Values that cross the boundary.                                         *)
(***************************************************************************)
XCAM_RETURN_NO_ERROR == 0

Statuses == {XCAM_RETURN_NO_ERROR, -1, -2}

WbScene ==
    {"INCANDESCENT", "FLUORESCENT", "WARM_FLUORESCENT", "DAYLIGHT",
     "CLOUDY_DAYLIGHT", "TWILIGHT", "SHADE"}

DefaultWbScene == "INCANDESCENT"

\* WbGain: the four channel gains <<rgain, grgain, gbgain, bgain>>
DefaultWbGain == <<0, 0, 0, 0>>

WbGain == {DefaultWbGain, <<1, 1, 1, 1>>, <<2, 1, 1, 3>>}

\* a u32 color temperature, held as its two 16-bit halves <<high, low>>
ZeroCt == <<0, 0>>

U32Max == <<65535, 65535>>

ColorTemps == {ZeroCt, <<0, 6500>>, U32Max}

(***************************************************************************)
(* XCamError::from(status).ok() and Result::map.                           *)
(***************************************************************************)
XCamError_from(status) ==
    CASE status = XCAM_RETURN_NO_ERROR -> "NoError"
      [] status = -1 -> "Failed"
      [] status = -2 -> "Param"
      [] OTHER -> "Unknown"

XCamError_ok(e) ==
    IF e = "NoError" THEN [ok |-> TRUE, value |-> "unit"] ELSE [ok |-> FALSE, err |-> e]

Result_map(r, v) == IF r.ok THEN [ok |-> TRUE, value |-> v] ELSE r

\* the conversions between ffi::opMode_t and types::OpMode used by .into()
OpMode(f) == WbOpMode(f)

OpMode_from_opMode_t(f, val) == WbOpMode_from_opMode_t(f, val)

opMode_t_from_OpMode(f, val) == opMode_t_from_WbOpMode(f, val)

(***************************************************************************)
(* impl AutoWhiteBalance for Context.  Each operator is one method: given  *)
(* what the native call answers (its status, whether it wrote through the  *)
(* out-parameter, and what it wrote) it yields the native entry points     *)
(* invoked, the argument handed to the native side and the method's result.*)
(***************************************************************************)
get_wb_mode_unchecked(f, status, wrote, w) ==
    LET mode == IF wrote THEN w ELSE "OP_INVAL"
    IN  [native |-> <<"rk_aiq_uapi_getWBMode">>,
         handed |-> "none",
         result |-> [ok |-> TRUE, value |-> OpMode_from_opMode_t(f, mode)]]

get_wb_mode(f, status, wrote, w) ==
    LET mode == IF wrote THEN w ELSE "OP_INVAL"
    IN  [native |-> <<"rk_aiq_uapi_getWBMode">>,
         handed |-> "none",
         result |-> Result_map(XCamError_ok(XCamError_from(status)),
                               OpMode_from_opMode_t(f, mode))]

set_wb_mode_legacy(f, mode, status) ==
    [native |-> <<"rk_aiq_uapi_setWBMode">>,
     handed |-> opMode_t_from_OpMode(f, mode),
     result |-> XCamError_ok(XCamError_from(status))]

set_wb_mode_uapi2_ignores_status(f, mode, status) ==
    [native |-> <<"rk_aiq_uapi2_setWBMode">>,
     handed |-> opMode_t_from_OpMode(f, mode),
     result |-> XCamError_ok(XCamError_from(XCAM_RETURN_NO_ERROR))]

set_wb_mode_uapi2(f, mode, status) ==
    [native |-> <<"rk_aiq_uapi2_setWBMode">>,
     handed |-> opMode_t_from_OpMode(f, mode),
     result |-> XCamError_ok(XCamError_from(status))]

set_wb_mode_always_legacy(f, mode, status) == set_wb_mode_legacy(f, mode, status)

set_wb_mode(f, mode, status) ==
    IF f \in LegacyFeatures
    THEN set_wb_mode_legacy(f, mode, status)
    ELSE set_wb_mode_uapi2(f, mode, status)

lock_awb_calls_unlock(status) ==
    [native |-> <<"rk_aiq_uapi_unlockAWB">>,
     handed |-> "none",
     result |-> XCamError_ok(XCamError_from(status))]

lock_awb(status) ==
    [native |-> <<"rk_aiq_uapi_lockAWB">>,
     handed |-> "none",
     result |-> XCamError_ok(XCamError_from(status))]

unlock_awb(status) ==
    [native |-> <<"rk_aiq_uapi_unlockAWB">>,
     handed |-> "none",
     result |-> XCamError_ok(XCamError_from(status))]

get_mwb_scene_returns_default(status, wrote, w) ==
    [native |-> <<"rk_aiq_uapi_getMWBScene">>,
     handed |-> "none",
     result |-> Result_map(XCamError_ok(XCamError_from(status)), DefaultWbScene)]

get_mwb_scene(status, wrote, w) ==
    LET scene == IF wrote THEN w ELSE DefaultWbScene
    IN  [native |-> <<"rk_aiq_uapi_getMWBScene">>,
         handed |-> "none",
         result |-> Result_map(XCamError_ok(XCamError_from(status)), scene)]

set_mwb_scene(scene, status) ==
    [native |-> <<"rk_aiq_uapi_setMWBScene">>,
     handed |-> scene,
     result |-> XCamError_ok(XCamError_from(status))]

get_mwb_gain(status, wrote, w) ==
    LET gain == IF wrote THEN w ELSE DefaultWbGain
    IN  [native |-> <<"rk_aiq_uapi_getMWBGain">>,
         handed |-> "none",
         result |-> Result_map(XCamError_ok(XCamError_from(status)), gain)]

set_mwb_gain(gain, status) ==
    [native |-> <<"rk_aiq_uapi_setMWBGain">>,
     handed |-> gain,
     result |-> XCamError_ok(XCamError_from(status))]

get_mwb_ct_truncates(status, wrote, w) ==
    LET ct == IF wrote THEN <<0, w[2]>> ELSE ZeroCt
    IN  [native |-> <<"rk_aiq_uapi_getMWBCT">>,
         handed |-> "none",
         result |-> Result_map(XCamError_ok(XCamError_from(status)), ct)]

get_mwb_ct(status, wrote, w) ==
    LET ct == IF wrote THEN w ELSE ZeroCt
    IN  [native |-> <<"rk_aiq_uapi_getMWBCT">>,
         handed |-> "none",
         result |-> Result_map(XCamError_ok(XCamError_from(status)), ct)]

set_mwb_ct(ct, status) ==
    [native |-> <<"rk_aiq_uapi_setMWBCT">>,
     handed |-> ct,
     result |-> XCamError_ok(XCamError_from(status))]

(***************************************************************************)
(* The state machine of the trait operations against the native double.    *)
(* Every action is one method call: the double answers with a status (and, *)
(* for a getter, with what it wrote through the out-parameter) and the     *)
(* call is recorded in last.  The layer itself has no state to update.     *)
(***************************************************************************)
Success(status) == status = XCAM_RETURN_NO_ERROR

Call(op, arg, status, wrote, w, r) ==
    [op |-> op, arg |-> arg, status |-> status,
     wrote |-> wrote, written |-> IF wrote THEN w ELSE "none",
     native |-> r.native, handed |-> r.handed, result |-> r.result]

CountedEntries ==
    {"rk_aiq_uapi_setWBMode", "rk_aiq_uapi2_setWBMode",
     "rk_aiq_uapi_lockAWB", "rk_aiq_uapi_unlockAWB"}

CountedOps == {"set_wb_mode", "lock_awb", "unlock_awb"}

IdleConv == [kind |-> "none", in |-> <<>>, mid |-> <<>>, out |-> <<>>]

IdlePair == [n |-> 0, uapi2Feature |-> "none", mode |-> "none",
             status |-> XCAM_RETURN_NO_ERROR,
             legacy |-> [native |-> <<>>], uapi2 |-> [native |-> <<>>]]

Init ==
    /\ feature \in Features
    /\ nativeScene \in WbScene
    /\ calls = [e \in CountedEntries |-> 0]
    /\ issued = [o \in CountedOps |-> 0]
    /\ last = [op |-> "none"]
    /\ lastSetScene = "none"
    /\ sceneBefore = "none"
    /\ conv = IdleConv
    /\ pair = IdlePair

GetWbMode ==
    \E status \in Statuses, wrote \in BOOLEAN, w \in opMode_t :
        /\ last' = Call("get_wb_mode", "none", status, wrote, w,
                        get_wb_mode(feature, status, wrote, w))
        /\ UNCHANGED <<feature, nativeScene, conv, pair>>

SetWbMode ==
    \E mode \in OpMode(feature), status \in Statuses :
        /\ last' = Call("set_wb_mode", mode, status, FALSE, "none",
                        set_wb_mode(feature, mode, status))
        /\ UNCHANGED <<feature, nativeScene, conv, pair>>

LockAwb ==
    \E status \in Statuses :
        /\ last' = Call("lock_awb", "none", status, FALSE, "none", lock_awb(status))
        /\ UNCHANGED <<feature, nativeScene, conv, pair>>

UnlockAwb ==
    \E status \in Statuses :
        /\ last' = Call("unlock_awb", "none", status, FALSE, "none", unlock_awb(status))
        /\ UNCHANGED <<feature, nativeScene, conv, pair>>

\* the double echoes the stored scene on success; on failure it may have
\* written anything, or nothing, before failing
GetMwbScene ==
    \E status \in Statuses, wrote \in BOOLEAN, w \in WbScene :
        /\ Success(status) => (wrote /\ w = nativeScene)
        /\ last' = Call("get_mwb_scene", "none", status, wrote, w,
                        get_mwb_scene(status, wrote, w))
        /\ UNCHANGED <<feature, nativeScene, conv, pair>>

\* the double stores the scene it is handed when it reports success
SetMwbScene ==
    \E scene \in WbScene, status \in Statuses :
        /\ last' = Call("set_mwb_scene", scene, status, FALSE, "none",
                        set_mwb_scene(scene, status))
        /\ nativeScene' = IF Success(status) THEN last'.handed ELSE nativeScene
        /\ UNCHANGED <<feature, conv, pair>>

GetMwbGain ==
    \E status \in Statuses, wrote \in BOOLEAN, w \in WbGain :
        /\ last' = Call("get_mwb_gain", "none", status, wrote, w,
                        get_mwb_gain(status, wrote, w))
        /\ UNCHANGED <<feature, nativeScene, conv, pair>>

SetMwbGain ==
    \E gain \in WbGain, status \in Statuses :
        /\ last' = Call("set_mwb_gain", gain, status, FALSE, "none",
                        set_mwb_gain(gain, status))
        /\ UNCHANGED <<feature, nativeScene, conv, pair>>

GetMwbCt ==
    \E status \in Statuses, wrote \in BOOLEAN, w \in ColorTemps :
        /\ last' = Call("get_mwb_ct", "none", status, wrote, w,
                        get_mwb_ct(status, wrote, w))
        /\ UNCHANGED <<feature, nativeScene, conv, pair>>

SetMwbCt ==
    \E ct \in ColorTemps, status \in Statuses :
        /\ last' = Call("set_mwb_ct", ct, status, FALSE, "none",
                        set_mwb_ct(ct, status))
        /\ UNCHANGED <<feature, nativeScene, conv, pair>>

(***************************************************************************)
(* Observers of a run: the double's invocation counters and the history of *)
(* the scene calls.  A specification composes each method call with the    *)
(* observers it uses.                                                      *)
(***************************************************************************)
Occurrences(entries, e) == Cardinality({i \in 1..Len(entries) : entries[i] = e})

TotalIssued == issued["set_wb_mode"] + issued["lock_awb"] + issued["unlock_awb"]

\* count the call and every invocation of a native entry point it made
Tally ==
    /\ TotalIssued < MaxCalls
    /\ issued' = [issued EXCEPT ![last'.op] = @ + 1]
    /\ calls' = [e \in CountedEntries |-> calls[e] + Occurrences(last'.native, e)]

Untallied == UNCHANGED <<calls, issued>>

\* remember the scene of a successful set and what the getter had returned
\* right before it
TrackScene ==
    IF last'.op = "set_mwb_scene" /\ last'.result.ok
    THEN /\ lastSetScene' = last'.arg
         /\ sceneBefore' = IF last.op = "get_mwb_scene" /\ last.result.ok
                           THEN last.result.value ELSE "none"
    ELSE UNCHANGED <<lastSetScene, sceneBefore>>

Untracked == UNCHANGED <<lastSetScene, sceneBefore>>

(***************************************************************************)
(* Spec: a caller uses all ten operations in any order.                    *)
(***************************************************************************)
Next ==
    \/ GetWbMode /\ Untallied /\ Untracked
    \/ SetWbMode /\ Untallied /\ Untracked
    \/ LockAwb /\ Untallied /\ Untracked
    \/ UnlockAwb /\ Untallied /\ Untracked
    \/ GetMwbScene /\ Untallied /\ Untracked
    \/ SetMwbScene /\ Untallied /\ Untracked
    \/ GetMwbGain /\ Untallied /\ Untracked
    \/ SetMwbGain /\ Untallied /\ Untracked
    \/ GetMwbCt /\ Untallied /\ Untracked
    \/ SetMwbCt /\ Untallied /\ Untracked

Spec == Init /\ [][Next]_vars

(***************************************************************************)
(* SpecCalls: the double counts the invocations of the entry points behind *)
(* set_wb_mode, lock_awb and unlock_awb over a bounded run of those calls. *)
(***************************************************************************)
NextCalls ==
    \/ SetWbMode /\ Tally /\ Untracked
    \/ LockAwb /\ Tally /\ Untracked
    \/ UnlockAwb /\ Tally /\ Untracked

SpecCalls == Init /\ [][NextCalls]_vars

(***************************************************************************)
(* SpecScene: scene calls, interleaved with other calls, with the history  *)
(* of the scene calls recorded.                                            *)
(***************************************************************************)
NextScene ==
    \/ GetMwbScene /\ TrackScene /\ Untallied
    \/ SetMwbScene /\ TrackScene /\ Untallied
    \/ SetMwbCt /\ TrackScene /\ Untallied
    \/ LockAwb /\ TrackScene /\ Untallied

SpecScene == Init /\ [][NextScene]_vars

(***************************************************************************)
(* SpecConv: the enum translations applied to every pair of values of each *)
(* enumeration available in the configuration, and translated back.        *)
(***************************************************************************)
Translate(kind, a, b, there, back) ==
    /\ conv' = [kind |-> kind,
                in |-> <<a, b>>,
                mid |-> <<there[a], there[b]>>,
                out |-> <<back[there[a]], back[there[b]]>>]
    /\ UNCHANGED <<feature, nativeScene, calls, issued, last, lastSetScene, sceneBefore, pair>>

\* opMode_t -> WbOpMode -> opMode_t
ConvOpMode ==
    \E a \in opMode_t, b \in opMode_t :
        Translate("opMode_t", a, b,
                  [v \in opMode_t |-> WbOpMode_from_opMode_t(feature, v)],
                  [m \in WbOpMode(feature) |-> opMode_t_from_WbOpMode(feature, m)])

\* rk_aiq_wb_op_mode_t -> WbOpMode -> rk_aiq_wb_op_mode_t
ConvWbMode ==
    \E a \in rk_aiq_wb_op_mode_t(feature), b \in rk_aiq_wb_op_mode_t(feature) :
        Translate("rk_aiq_wb_op_mode_t", a, b,
                  [v \in rk_aiq_wb_op_mode_t(feature) |->
                      WbOpMode_from_rk_aiq_wb_op_mode_t(feature, v)],
                  [m \in WbOpMode(feature) |-> rk_aiq_wb_op_mode_t_from_WbOpMode(feature, m)])

\* WbOpMode -> opMode_t -> WbOpMode
ConvWbOpModeViaOpMode ==
    \E a \in WbOpMode(feature), b \in WbOpMode(feature) :
        Translate("WbOpMode via opMode_t", a, b,
                  [m \in WbOpMode(feature) |-> opMode_t_from_WbOpMode(feature, m)],
                  [v \in opMode_t |-> WbOpMode_from_opMode_t(feature, v)])

\* WbOpMode -> rk_aiq_wb_op_mode_t -> WbOpMode
ConvWbOpModeViaWbMode ==
    \E a \in WbOpMode(feature), b \in WbOpMode(feature) :
        Translate("WbOpMode via rk_aiq_wb_op_mode_t", a, b,
                  [m \in WbOpMode(feature) |-> rk_aiq_wb_op_mode_t_from_WbOpMode(feature, m)],
                  [v \in rk_aiq_wb_op_mode_t(feature) |->
                      WbOpMode_from_rk_aiq_wb_op_mode_t(feature, v)])

InitConv == Init /\ nativeScene = DefaultWbScene

NextConv ==
    \/ ConvOpMode
    \/ ConvWbMode
    \/ ConvWbOpModeViaOpMode
    \/ ConvWbOpModeViaWbMode

SpecConv == InitConv /\ [][NextConv]_vars

(***************************************************************************)
(* SpecPair: a build of the v1_0/v2_0/v3_0 family (feature) and a build of *)
(* the v4_0/v5_0 family (pair.uapi2Feature) receive the same set_wb_mode   *)
(* calls, and their native doubles answer with the same statuses.          *)
(***************************************************************************)
InitPair ==
    /\ feature \in LegacyFeatures
    /\ \E u \in Uapi2Features : pair = [IdlePair EXCEPT !.uapi2Feature = u]
    /\ nativeScene = DefaultWbScene
    /\ calls = [e \in CountedEntries |-> 0]
    /\ issued = [o \in CountedOps |-> 0]
    /\ last = [op |-> "none"]
    /\ lastSetScene = "none"
    /\ sceneBefore = "none"
    /\ conv = IdleConv

SetWbModePair ==
    \E mode \in OpMode(feature) \cap OpMode(pair.uapi2Feature), status \in Statuses :
        /\ pair.n < MaxCalls
        /\ pair' = [pair EXCEPT !.n = @ + 1,
                                !.mode = mode,
                                !.status = status,
                                !.legacy = set_wb_mode(feature, mode, status),
                                !.uapi2 = set_wb_mode(pair.uapi2Feature, mode, status)]
        /\ UNCHANGED <<feature, nativeScene, calls, issued, last, lastSetScene, sceneBefore, conv>>

NextPair == SetWbModePair

SpecPair == InitPair /\ [][NextPair]_vars

(***************************************************************************)
(* Properties.                                                             *)
(***************************************************************************)
Ok(v) == [ok |-> TRUE, value |-> v]

Err(status) == [ok |-> FALSE, err |-> XCamError_from(status)]

CatchAll(f) == IF f = "v1_0" THEN "Invalid" ELSE "Max"

\* C1 (Spec): whenever the native status of a call of any of the ten
\* operations is a failure, the call returns exactly the wrapped error of that
\* status: a result that carries no value, neither the getter's local default
\* nor what the native call wrote before failing.
C1_FailureReturnsWrappedError ==
    (last.op # "none" /\ ~Success(last.status)) =>
        /\ ~last.result.ok
        /\ last.result = Err(last.status)
        /\ DOMAIN last.result = {"ok", "err"}

\* a failing get_mwb_scene whose native call had written a scene other than
\* the default before failing
C1_Witness ==
    /\ last.op = "get_mwb_scene"
    /\ ~Success(last.status)
    /\ last.wrote
    /\ last.written # DefaultWbScene
    /\ last.result = Err(last.status)

\* C2 (Spec): whenever the native status is success, a getter returns exactly
\* what the native call wrote through the out-parameter (get_wb_mode: its
\* translation), and a setter returns success having handed the native call
\* exactly the caller's argument (set_wb_mode: its translation).
C2_SuccessReturnsValueUntouched ==
    (last.op # "none" /\ Success(last.status)) =>
        /\ (last.op \in {"get_mwb_scene", "get_mwb_gain", "get_mwb_ct"} /\ last.wrote)
               => last.result = Ok(last.written)
        /\ (last.op = "get_wb_mode" /\ last.wrote)
               => last.result = Ok(OpMode_from_opMode_t(feature, last.written))
        /\ last.op \in {"set_mwb_scene", "set_mwb_gain", "set_mwb_ct"}
               => (last.result = Ok("unit") /\ last.handed = last.arg)
        /\ last.op = "set_wb_mode"
               => (last.result = Ok("unit")
                   /\ last.handed = opMode_t_from_OpMode(feature, last.arg))
        /\ last.op \in {"lock_awb", "unlock_awb"} => last.result = Ok("unit")

\* a successful get_mwb_ct that returned the maximum u32
C2_Witness ==
    /\ last.op = "get_mwb_ct"
    /\ Success(last.status)
    /\ last.wrote
    /\ last.written = U32Max
    /\ last.result = Ok(U32Max)

\* C3 (SpecConv): opMode_t -> WbOpMode -> opMode_t reproduces OP_AUTO and
\* OP_MANUAL; every other value takes the catch-all and ends at the single
\* sentinel OP_INVAL, never at OP_AUTO, OP_MANUAL or another variant.
C3_OpModeRoundTrip ==
    conv.kind = "opMode_t" =>
        \A i \in 1..2 :
            IF conv.in[i] \in {"OP_AUTO", "OP_MANUAL"}
            THEN conv.out[i] = conv.in[i]
            ELSE conv.out[i] = "OP_INVAL"

\* OP_SEMI_AUTO and OP_AUTO translated there and back side by side
C3_Witness ==
    /\ conv.kind = "opMode_t"
    /\ conv.in = <<"OP_SEMI_AUTO", "OP_AUTO">>
    /\ conv.out = <<"OP_INVAL", "OP_AUTO">>

\* C4 (SpecConv): for rk_aiq_wb_op_mode_t the two translations are inverse
\* bijections in every configuration: native -> WbOpMode -> native and
\* WbOpMode -> native -> WbOpMode are both the identity, and each translation
\* lands in the enumeration of the configuration.
C4_WbModeInverseBijections ==
    /\ conv.kind = "rk_aiq_wb_op_mode_t" =>
           \A i \in 1..2 : /\ conv.out[i] = conv.in[i]
                           /\ conv.mid[i] \in WbOpMode(feature)
    /\ conv.kind = "WbOpMode via rk_aiq_wb_op_mode_t" =>
           \A i \in 1..2 : /\ conv.out[i] = conv.in[i]
                           /\ conv.mid[i] \in rk_aiq_wb_op_mode_t(feature)

\* RK_AIQ_WB_MODE_INVALID (v1_0 only) and RK_AIQ_WB_MODE_MAX round-tripped
C4_Witness ==
    /\ feature = "v1_0"
    /\ conv.kind = "rk_aiq_wb_op_mode_t"
    /\ conv.in = <<"RK_AIQ_WB_MODE_INVALID", "RK_AIQ_WB_MODE_MAX">>
    /\ conv.mid = <<"Invalid", "Max">>
    /\ conv.out = conv.in

\* C5 (SpecConv): opMode_t -> WbOpMode is total: OP_AUTO gives Auto, OP_MANUAL
\* gives Manual and every other value gives the catch-all of the
\* configuration, Invalid under v1_0 and Max otherwise, always a variant the
\* configuration defines.
C5_OpModeCatchAll ==
    conv.kind = "opMode_t" =>
        \A i \in 1..2 :
            /\ conv.mid[i] \in WbOpMode(feature)
            /\ conv.mid[i] = CASE conv.in[i] = "OP_AUTO" -> "Auto"
                               [] conv.in[i] = "OP_MANUAL" -> "Manual"
                               [] OTHER -> CatchAll(feature)

\* OP_SEMI_AUTO and OP_INVAL translated under v1_0
C5_Witness ==
    /\ feature = "v1_0"
    /\ conv.kind = "opMode_t"
    /\ conv.in = <<"OP_SEMI_AUTO", "OP_INVAL">>
    /\ conv.mid = <<"Invalid", "Invalid">>

\* C6 (SpecCalls): every set_wb_mode call invokes the entry point of the
\* configured family exactly once and the other one never, so after n calls
\* the entry point of the family has been invoked n times.
C6_SetWbModeEntryPoint ==
    LET mine  == IF feature \in LegacyFeatures
                 THEN "rk_aiq_uapi_setWBMode" ELSE "rk_aiq_uapi2_setWBMode"
        other == IF feature \in LegacyFeatures
                 THEN "rk_aiq_uapi2_setWBMode" ELSE "rk_aiq_uapi_setWBMode"
    IN  /\ calls[mine] = issued["set_wb_mode"]
        /\ calls[other] = 0
        /\ last.op = "set_wb_mode" => last.native = <<mine>>

\* two set_wb_mode calls under v5_0, interleaved with a lock
C6_Witness ==
    /\ feature = "v5_0"
    /\ issued["set_wb_mode"] = 2
    /\ issued["lock_awb"] = 1
    /\ calls["rk_aiq_uapi2_setWBMode"] = 2

\* C7 (SpecPair): on every call the two implementations of set_wb_mode hand
\* the native side the same translated mode and return the same result, the
\* success or the wrapped error of the status both doubles returned.
C7_SetWbModeImplementationsAgree ==
    pair.n > 0 =>
        /\ pair.legacy.handed = pair.uapi2.handed
        /\ pair.legacy.result = pair.uapi2.result
        /\ pair.legacy.result = IF Success(pair.status) THEN Ok("unit") ELSE Err(pair.status)
        /\ pair.legacy.native = <<"rk_aiq_uapi_setWBMode">>
        /\ pair.uapi2.native = <<"rk_aiq_uapi2_setWBMode">>

\* a v1_0 build and a v4_0 build both failing the second call, for Max
C7_Witness ==
    /\ feature = "v1_0"
    /\ pair.uapi2Feature = "v4_0"
    /\ pair.n = 2
    /\ pair.mode = "Max"
    /\ ~Success(pair.status)
    /\ pair.legacy.handed = "OP_INVAL"
    /\ ~pair.uapi2.result.ok

\* C8 (SpecScene): nothing is cached: a successful get_mwb_scene returns the
\* scene of the last successful set_mwb_scene, whatever was called before or
\* in between, and a failing get_mwb_scene returns the wrapped error, never a
\* scene.
C8_GetterRequeriesNative ==
    last.op = "get_mwb_scene" =>
        IF Success(last.status)
        THEN /\ last.result = Ok(nativeScene)
             /\ lastSetScene # "none" => last.result = Ok(lastSetScene)
        ELSE last.result = Err(last.status)

\* get_mwb_scene returned another scene, then set_mwb_scene(DAYLIGHT)
\* succeeded, and now get_mwb_scene returns DAYLIGHT
C8_Witness ==
    /\ last.op = "get_mwb_scene"
    /\ lastSetScene = "DAYLIGHT"
    /\ sceneBefore \notin {"none", "DAYLIGHT"}
    /\ last.result = Ok("DAYLIGHT")

\* C9 (SpecCalls): however many lock_awb and unlock_awb calls came before and
\* in whatever order, each call issues exactly one native request of its own
\* kind and its result is that of its native status alone; with a status of
\* success it is never an error.
C9_LockUnlockRepeatable ==
    /\ calls["rk_aiq_uapi_lockAWB"] = issued["lock_awb"]
    /\ calls["rk_aiq_uapi_unlockAWB"] = issued["unlock_awb"]
    /\ last.op = "lock_awb" => last.native = <<"rk_aiq_uapi_lockAWB">>
    /\ last.op = "unlock_awb" => last.native = <<"rk_aiq_uapi_unlockAWB">>
    /\ last.op \in {"lock_awb", "unlock_awb"} =>
           last.result = IF Success(last.status) THEN Ok("unit") ELSE Err(last.status)

\* lock, lock, unlock: the second lock and the unlock both counted
C9_Witness ==
    /\ issued["lock_awb"] = 2
    /\ issued["unlock_awb"] = 1
    /\ last.op = "unlock_awb"
    /\ last.result = Ok("unit")

\* C10 as stated (SpecConv): in every translation, in both directions and for
\* both native enumerations, two distinct inputs never give the same output.
C10_EveryTranslationInjective ==
    conv.kind # "none" => (conv.in[1] # conv.in[2] => conv.mid[1] # conv.mid[2])

\* C10 amended (SpecConv): the translations of rk_aiq_wb_op_mode_t are
\* injective in both directions; those of opMode_t are injective except at the
\* catch-all: OP_SEMI_AUTO and OP_INVAL both give the catch-all variant, and
\* under v1_0 Invalid and Max both give OP_INVAL; no other two distinct inputs
\* give the same output.
C10_InjectiveExceptCatchAll ==
    LET same == conv.in[1] # conv.in[2] /\ conv.mid[1] = conv.mid[2]
    IN  /\ conv.kind \in {"rk_aiq_wb_op_mode_t", "WbOpMode via rk_aiq_wb_op_mode_t"} => ~same
        /\ conv.kind = "opMode_t" =>
               (same <=> {conv.in[1], conv.in[2]} = {"OP_SEMI_AUTO", "OP_INVAL"})
        /\ conv.kind = "WbOpMode via opMode_t" =>
               (same <=> {conv.in[1], conv.in[2]} = {"Invalid", "Max"})

\* under v1_0, Invalid and Max translated to opMode_t give the same OP_INVAL
C10_Witness ==
    /\ feature = "v1_0"
    /\ conv.kind = "WbOpMode via opMode_t"
    /\ conv.in = <<"Invalid", "Max">>
    /\ conv.mid = <<"OP_INVAL", "OP_INVAL">>

====
